---------------------------- MODULE Spec2Model ----------------------------
(***************************************************************************)
(* UAV strategic deconfliction: the trajectory builder, the position       *)
(* lookup and the conflict detector of conflict_checker.py.                *)
(*                                                                         *)
(* Python floats are modelled as exact rationals [n, d] in lowest terms    *)
(* (d > 0).  Inputs are drawn from sets on which math.sqrt is exact, so    *)
(* every value the code computes is a rational the model computes too.     *)
(***************************************************************************)
EXTENDS Integers, Sequences, FiniteSets, TLC

(***************************************************************************)
(* Exact rational arithmetic (the float operators of the source).          *)
(***************************************************************************)
Abs(i) == IF i < 0 THEN -i ELSE i

RECURSIVE GCD(_, _)
GCD(a, b) == IF b = 0 THEN a ELSE GCD(b, a % b)

\* n/d in lowest terms, for d # 0
R(n, d) ==
    LET s == IF d < 0 THEN -1 ELSE 1
        g == GCD(Abs(n), Abs(d))
    IN  [n |-> (s * n) \div g, d |-> (s * d) \div g]

Zero == R(0, 1)

RAdd(a, b) == R(a.n * b.d + b.n * a.d, a.d * b.d)
RSub(a, b) == R(a.n * b.d - b.n * a.d, a.d * b.d)
RMul(a, b) == R(a.n * b.n, a.d * b.d)
RDiv(a, b) == R(a.n * b.d, a.d * b.n)
RLt(a, b) == a.n * b.d < b.n * a.d
RLe(a, b) == a.n * b.d <= b.n * a.d
RAbs(a) == [n |-> Abs(a.n), d |-> a.d]

\* math.sqrt on the perfect squares the inputs are restricted to
ISqrt(k) == CHOOSE r \in 0..k : r * r = k
IsSquare(k) == \E r \in 0..k : r * r = k
RSqrt(a) == [n |-> ISqrt(a.n), d |-> ISqrt(a.d)]

\* round(x, ndigits=2): to the nearest hundredth, ties to the even hundredth
\* variant: the time is recorded without rounding
Round2_none(a) == a

\* round(a, 2): to the nearest hundredth, ties to the even hundredth
Round2(a) ==
    LET num == a.n * 100
        f == num \div a.d
        rem == num - f * a.d
        up == IF 2 * rem > a.d THEN TRUE
              ELSE IF 2 * rem < a.d THEN FALSE
              ELSE f % 2 = 1
    IN  R(IF up THEN f + 1 ELSE f, 100)

(***************************************************************************)
(* data_models.py                                                          *)
(***************************************************************************)
\* Python's None (a record, so that it compares with positions and reports)
None == [none |-> TRUE]

Waypoint(x, y, z) == [x |-> x, y |-> y, z |-> z]

TimedWaypoint(x, y, z, time) == [x |-> x, y |-> y, z |-> z, time |-> time]

PrimaryMission(waypoints, speed, mission_start_time, mission_end_time) ==
    [waypoints |-> waypoints, speed |-> speed,
     mission_start_time |-> mission_start_time,
     mission_end_time |-> mission_end_time]

SimulatedFlight(flight_id, trajectory) ==
    [flight_id |-> flight_id, trajectory |-> trajectory]

Conflict(time, location, conflicted_with_flight_id) ==
    [time |-> time, location |-> location,
     conflicted_with_flight_id |-> conflicted_with_flight_id]

\* conflicts defaults to the empty list
ConflictReport(status, conflicts) == [status |-> status, conflicts |-> conflicts]

(***************************************************************************)
(* conflict_checker.py: helper functions                                   *)
(***************************************************************************)
calculate_distance(wp1, wp2) ==
    LET dx == RSub(wp1.x, wp2.x)
        dy == RSub(wp1.y, wp2.y)
        dz == RSub(wp1.z, wp2.z)
    IN  RSqrt(RAdd(RAdd(RMul(dx, dx), RMul(dy, dy)), RMul(dz, dz)))

\* variant: the altitude is not interpolated (the leg's start altitude is kept)
interpolate_position_flat_z(start_wp, end_wp, current_time) ==
    IF RLe(current_time, start_wp.time)
    THEN Waypoint(start_wp.x, start_wp.y, start_wp.z)
    ELSE IF RLe(end_wp.time, current_time)
    THEN Waypoint(end_wp.x, end_wp.y, end_wp.z)
    ELSE LET fraction == RDiv(RSub(current_time, start_wp.time),
                              RSub(end_wp.time, start_wp.time))
         IN  Waypoint(
               RAdd(start_wp.x, RMul(RSub(end_wp.x, start_wp.x), fraction)),
               RAdd(start_wp.y, RMul(RSub(end_wp.y, start_wp.y), fraction)),
               start_wp.z)

interpolate_position_end_first(start_wp, end_wp, current_time) ==
    IF RLe(end_wp.time, current_time)
    THEN Waypoint(end_wp.x, end_wp.y, end_wp.z)
    ELSE IF RLe(current_time, start_wp.time)
    THEN Waypoint(start_wp.x, start_wp.y, start_wp.z)
    ELSE LET segment_duration == RSub(end_wp.time, start_wp.time) IN
         IF segment_duration = Zero
         THEN Waypoint(start_wp.x, start_wp.y, start_wp.z)
         ELSE LET time_elapsed == RSub(current_time, start_wp.time)
                  fraction == RDiv(time_elapsed, segment_duration)
              IN  Waypoint(
                    RAdd(start_wp.x, RMul(RSub(end_wp.x, start_wp.x), fraction)),
                    RAdd(start_wp.y, RMul(RSub(end_wp.y, start_wp.y), fraction)),
                    RAdd(start_wp.z, RMul(RSub(end_wp.z, start_wp.z), fraction)))

interpolate_position(start_wp, end_wp, current_time) ==
    IF RLe(current_time, start_wp.time)
    THEN Waypoint(start_wp.x, start_wp.y, start_wp.z)
    ELSE IF RLe(end_wp.time, current_time)
    THEN Waypoint(end_wp.x, end_wp.y, end_wp.z)
    ELSE LET segment_duration == RSub(end_wp.time, start_wp.time) IN
         IF segment_duration = Zero
         THEN Waypoint(start_wp.x, start_wp.y, start_wp.z)
         ELSE LET time_elapsed == RSub(current_time, start_wp.time)
                  fraction == RDiv(time_elapsed, segment_duration)
              IN  Waypoint(
                    RAdd(start_wp.x, RMul(RSub(end_wp.x, start_wp.x), fraction)),
                    RAdd(start_wp.y, RMul(RSub(end_wp.y, start_wp.y), fraction)),
                    RAdd(start_wp.z, RMul(RSub(end_wp.z, start_wp.z), fraction)))

(***************************************************************************)
(* conflict_checker.py: convert_mission_to_trajectory                      *)
(* The result is [raised, value]: raised is TRUE when the ValueError is    *)
(* raised (no value is returned then), else value is the trajectory.       *)
(***************************************************************************)
Returned(v) == [raised |-> FALSE, value |-> v]
Raised == [raised |-> TRUE, value |-> None]

\* variant: the test is inverted (the "not" of the guard is lost)
AlreadyEmitted_inverted(trajectory, wp2) ==
    ~\E k \in 1..Len(trajectory) :
        /\ trajectory[k].x = wp2.x
        /\ trajectory[k].y = wp2.y
        /\ trajectory[k].z = wp2.z

\* any(t.x == wp2.x and t.y == wp2.y and t.z == wp2.z for t in trajectory)
AlreadyEmitted(trajectory, wp2) ==
    \E k \in 1..Len(trajectory) :
        /\ trajectory[k].x = wp2.x
        /\ trajectory[k].y = wp2.y
        /\ trajectory[k].z = wp2.z

\* variant: distance >= 0
positive_distance_or_zero(distance) == RLe(Zero, distance)

\* if distance > 0 (under speed <= 0): the ValueError is raised
positive_distance(distance) == RLt(Zero, distance)

\* variant: distance * speed
time_to_travel_product(distance, speed) == RMul(distance, speed)

\* time_to_travel = distance / mission.speed
time_to_travel(distance, speed) == RDiv(distance, speed)

\* variant: a waypoint already in the trajectory is skipped at every speed
RECURSIVE ConvertLoop_skip_repeats(_, _, _, _)
ConvertLoop_skip_repeats(mission, i, trajectory, current_time) ==
    IF i > Len(mission.waypoints) - 1
    THEN Returned(trajectory)
    ELSE LET wp1 == mission.waypoints[i]
             wp2 == mission.waypoints[i + 1]
             distance == calculate_distance(wp1, wp2)
             new_time == IF RLe(mission.speed, Zero)
                         THEN current_time
                         ELSE RAdd(current_time, RDiv(distance, mission.speed))
         IN  IF RLe(mission.speed, Zero) /\ RLt(Zero, distance)
             THEN Raised
             ELSE IF AlreadyEmitted(trajectory, wp2)
                  THEN ConvertLoop_skip_repeats(mission, i + 1, trajectory, new_time)
                  ELSE ConvertLoop_skip_repeats(mission, i + 1,
                         Append(trajectory,
                                TimedWaypoint(wp2.x, wp2.y, wp2.z, new_time)),
                         new_time)

\* the for loop over range(len(mission.waypoints) - 1), from index i (1-based)
RECURSIVE ConvertLoop(_, _, _, _)
ConvertLoop(mission, i, trajectory, current_time) ==
    IF i > Len(mission.waypoints) - 1
    THEN Returned(trajectory)
    ELSE LET wp1 == mission.waypoints[i]
             wp2 == mission.waypoints[i + 1]
             distance == calculate_distance(wp1, wp2)
         IN  IF RLe(mission.speed, Zero)
             THEN IF positive_distance(distance)
                  THEN Raised
                  ELSE IF ~AlreadyEmitted(trajectory, wp2)
                       THEN ConvertLoop(mission, i + 1,
                              Append(trajectory,
                                     TimedWaypoint(wp2.x, wp2.y, wp2.z, current_time)),
                              current_time)
                       ELSE ConvertLoop(mission, i + 1, trajectory, current_time)
             ELSE LET new_time ==
                        RAdd(current_time, time_to_travel(distance, mission.speed))
                  IN  ConvertLoop(mission, i + 1,
                        Append(trajectory,
                               TimedWaypoint(wp2.x, wp2.y, wp2.z, new_time)),
                        new_time)

\* variant: the clock starts at the mission's window start
convert_mission_to_trajectory_window_clock(mission, actual_start_time) ==
    IF mission.waypoints = << >>
    THEN Returned(<< >>)
    ELSE LET first_wp == mission.waypoints[1] IN
         ConvertLoop(mission, 1,
                     << TimedWaypoint(first_wp.x, first_wp.y, first_wp.z,
                                      mission.mission_start_time) >>,
                     mission.mission_start_time)

\* trajectory = [first waypoint at actual_start_time], then the loop
convert_mission_to_trajectory(mission, actual_start_time) ==
    IF mission.waypoints = << >>
    THEN Returned(<< >>)
    ELSE LET first_wp == mission.waypoints[1] IN
         ConvertLoop(mission, 1,
                     << TimedWaypoint(first_wp.x, first_wp.y, first_wp.z,
                                      actual_start_time) >>,
                     actual_start_time)

(***************************************************************************)
(* conflict_checker.py: _find_drone_position                               *)
(***************************************************************************)
\* variant: a leg matches as soon as it has started (no upper bound), so a
\* time after the last point is clamped to a leg's end
RECURSIVE FindLoop_no_upper(_, _, _)
FindLoop_no_upper(trajectory, i, current_time) ==
    IF i > Len(trajectory) - 1
    THEN None
    ELSE IF RLe(trajectory[i].time, current_time)
         THEN interpolate_position(trajectory[i], trajectory[i + 1], current_time)
         ELSE FindLoop_no_upper(trajectory, i + 1, current_time)

\* the for loop over range(len(trajectory) - 1), from index i (1-based)
RECURSIVE FindLoop(_, _, _)
FindLoop(trajectory, i, current_time) ==
    IF i > Len(trajectory) - 1
    THEN None
    ELSE LET wp_start == trajectory[i]
             wp_end == trajectory[i + 1]
         IN  IF RLe(wp_start.time, current_time) /\ RLe(current_time, wp_end.time)
             THEN interpolate_position(wp_start, wp_end, current_time)
             ELSE FindLoop(trajectory, i + 1, current_time)

\* variant: a trajectory of one point has a position at that point's time
_find_drone_position_one_point(trajectory, current_time) ==
    IF Len(trajectory) = 1 /\ trajectory[1].time = current_time
    THEN Waypoint(trajectory[1].x, trajectory[1].y, trajectory[1].z)
    ELSE FindLoop(trajectory, 1, current_time)

_find_drone_position(trajectory, current_time) ==
    FindLoop(trajectory, 1, current_time)

(***************************************************************************)
(* conflict_checker.py: check_for_conflicts, the pure parts                *)
(***************************************************************************)
WINDOW_ID == "MISSION_TIME_WINDOW_EXCEEDED"

\* variant: the mission's start, not its end, is compared with the window
WindowExceeded_by_start(trajectory, window_end) ==
    RLt(window_end, trajectory[1].time)

\* variant: ">=" for ">"
WindowExceeded_inclusive(trajectory, window_end) ==
    RLe(window_end, trajectory[Len(trajectory)].time)

\* if mission_end > mission_end_window (the trajectory is not empty)
WindowExceeded(trajectory, window_end) ==
    RLt(window_end, trajectory[Len(trajectory)].time)

\* variant: either comparison suffices ("or" for "and")
InBuffer_either(primary_pos, sim_pos, bufH, bufV) ==
    LET dx == RSub(primary_pos.x, sim_pos.x)
        dy == RSub(primary_pos.y, sim_pos.y)
        dz_vertical == RAbs(RSub(primary_pos.z, sim_pos.z))
    IN  \/ RLt(RAdd(RMul(dx, dx), RMul(dy, dy)), RMul(bufH, bufH))
        \/ RLt(dz_vertical, bufV)

\* variant: a non-CLEAR status for the empty primary
EmptyReport_conflict == ConflictReport("CONFLICT_DETECTED", << >>)

\* return ConflictReport(status="CLEAR") for the empty primary
EmptyReport == ConflictReport("CLEAR", << >>)

\* while current_time <= mission_end
LoopCondition(t, end) == RLe(t, end)

\* binary64 addition a + b leaves a unchanged when |b| is below half a unit
\* in the last place of a; that is so whenever |a| >= 2^k and
\* |b| < 2^-(54 - k) for some k (53 significant bits)
Absorbed(a, b) ==
    /\ b.n # 0
    /\ \E k \in 24..30 :
          /\ Abs(a.n) \div a.d >= 2 ^ k
          /\ b.d \div Abs(b.n) > 2 ^ (54 - k)

\* current_time += time_step (the sum is exact for the other values used)
FloatAdd(a, b) == IF Absorbed(a, b) THEN a ELSE RAdd(a, b)

\* variant: the other drone's position is recorded
RecordedLocation_sim(primary_pos, sim_pos) == sim_pos

\* location=primary_pos
RecordedLocation(primary_pos, sim_pos) == primary_pos

\* the cylindrical check of one (primary, simulated) pair of positions
\* variant: "<=" for "<" in both comparisons
InBuffer_inclusive(primary_pos, sim_pos, bufH, bufV) ==
    LET dx == RSub(primary_pos.x, sim_pos.x)
        dy == RSub(primary_pos.y, sim_pos.y)
        dz_vertical == RAbs(RSub(primary_pos.z, sim_pos.z))
        dist_horizontal_sq == RAdd(RMul(dx, dx), RMul(dy, dy))
        buffer_horizontal_sq == RMul(bufH, bufH)
    IN  RLe(dist_horizontal_sq, buffer_horizontal_sq) /\ RLe(dz_vertical, bufV)

\* variant: the vertical comparison is turned around
InBuffer_vertical_outside(primary_pos, sim_pos, bufH, bufV) ==
    LET dx == RSub(primary_pos.x, sim_pos.x)
        dy == RSub(primary_pos.y, sim_pos.y)
        dz_vertical == RAbs(RSub(primary_pos.z, sim_pos.z))
        dist_horizontal_sq == RAdd(RMul(dx, dx), RMul(dy, dy))
        buffer_horizontal_sq == RMul(bufH, bufH)
    IN  RLt(dist_horizontal_sq, buffer_horizontal_sq) /\ RLt(bufV, dz_vertical)

InBuffer(primary_pos, sim_pos, bufH, bufV) ==
    LET dx == RSub(primary_pos.x, sim_pos.x)
        dy == RSub(primary_pos.y, sim_pos.y)
        dz_vertical == RAbs(RSub(primary_pos.z, sim_pos.z))
        dist_horizontal_sq == RAdd(RMul(dx, dx), RMul(dy, dy))
        buffer_horizontal_sq == RMul(bufH, bufH)
    IN  RLt(dist_horizontal_sq, buffer_horizontal_sq) /\ RLt(dz_vertical, bufV)

\* variant: the flights are visited from the last to the first
RECURSIVE FlightLoop_reversed(_, _, _, _, _, _)
FlightLoop_reversed(primary_pos, flights, j, t, bufH, bufV) ==
    IF j > Len(flights)
    THEN << >>
    ELSE LET sim_pos == _find_drone_position(flights[j].trajectory, t)
             rest == FlightLoop_reversed(primary_pos, flights, j + 1, t, bufH, bufV)
         IN  IF sim_pos = None
             THEN rest
             ELSE IF RLt(RAdd(RMul(RSub(primary_pos.x, sim_pos.x),
                                   RSub(primary_pos.x, sim_pos.x)),
                              RMul(RSub(primary_pos.y, sim_pos.y),
                                   RSub(primary_pos.y, sim_pos.y))),
                         RMul(bufH, bufH))
                     /\ RLt(RAbs(RSub(primary_pos.z, sim_pos.z)), bufV)
                  THEN rest \o << j >>
                  ELSE rest

\* the for loop over simulated_flights at one instant, from index j: the
\* indices of the flights for which a Conflict is appended, in order
RECURSIVE FlightLoop(_, _, _, _, _, _)
FlightLoop(primary_pos, flights, j, t, bufH, bufV) ==
    IF j > Len(flights)
    THEN << >>
    ELSE LET sim_pos == _find_drone_position(flights[j].trajectory, t)
             rest == FlightLoop(primary_pos, flights, j + 1, t, bufH, bufV)
         IN  IF sim_pos = None
             THEN rest
             ELSE IF InBuffer(primary_pos, sim_pos, bufH, bufV)
                  THEN << j >> \o rest
                  ELSE rest

\* variant: the key is the flight id alone
ConflictKey_id_only(conflict) == << conflict.conflicted_with_flight_id >>

\* key = (conflict.conflicted_with_flight_id, conflict.time)
ConflictKey(conflict) == << conflict.conflicted_with_flight_id, conflict.time >>

\* variant: every conflict is kept
RECURSIVE DedupLoop_keep_all(_, _, _, _)
DedupLoop_keep_all(conflicts, k, unique_conflicts, seen_ids_at_time) ==
    IF k > Len(conflicts)
    THEN unique_conflicts
    ELSE DedupLoop_keep_all(conflicts, k + 1,
                            Append(unique_conflicts, conflicts[k]),
                            seen_ids_at_time \cup {ConflictKey(conflicts[k])})

\* the deduplication loop over all_conflicts, from index k
RECURSIVE DedupLoop(_, _, _, _)
DedupLoop(conflicts, k, unique_conflicts, seen_ids_at_time) ==
    IF k > Len(conflicts)
    THEN unique_conflicts
    ELSE LET conflict == conflicts[k]
             key == ConflictKey(conflict)
         IN  IF key \notin seen_ids_at_time
             THEN DedupLoop(conflicts, k + 1, Append(unique_conflicts, conflict),
                            seen_ids_at_time \cup {key})
             ELSE DedupLoop(conflicts, k + 1, unique_conflicts, seen_ids_at_time)

\* variant: the "if all_conflicts" test is lost
FinalReport_unconditional(conflicts) ==
    ConflictReport("CONFLICT_DETECTED", DedupLoop(conflicts, 1, << >>, {}))

\* if all_conflicts: deduplicate, return CONFLICT_DETECTED; else return CLEAR
FinalReport(conflicts) ==
    IF conflicts # << >>
    THEN ConflictReport("CONFLICT_DETECTED", DedupLoop(conflicts, 1, << >>, {}))
    ELSE ConflictReport("CLEAR", << >>)

(***************************************************************************)
(* State.                                                                  *)
(*   mission, actual_start_time   the builder's arguments                  *)
(*   built                        the builder's outcome, None before       *)
(*   simulated_flights, buffer_horizontal, buffer_vertical, time_step      *)
(*                                the detector's other arguments           *)
(*   pc                           position in the run                      *)
(*   current_time, all_conflicts  locals of check_for_conflicts            *)
(*   report                       the returned ConflictReport, None before *)
(*   sampled                      history: the instants the while loop     *)
(*                                examined, in order                       *)
(*   raw                          history: for each appended Conflict, the *)
(*                                instant and the flight index it is for   *)
(*   q_trajectory, q_time         arguments of a position lookup           *)
(*   q_position                   result of _find_drone_position           *)
(*   q_interp                     result of interpolate_position on a leg  *)
(***************************************************************************)
VARIABLES mission, actual_start_time, built,
          simulated_flights, buffer_horizontal, buffer_vertical, time_step,
          pc, current_time, all_conflicts, report, sampled, raw,
          q_trajectory, q_time, q_position, q_interp,
          SAFETY_BUFFER_HORIZONTAL, SAFETY_BUFFER_VERTICAL,
          create_animation, calls, printed

vars == << mission, actual_start_time, built,
           simulated_flights, buffer_horizontal, buffer_vertical, time_step,
           pc, current_time, all_conflicts, report, sampled, raw,
           q_trajectory, q_time, q_position, q_interp,
           SAFETY_BUFFER_HORIZONTAL, SAFETY_BUFFER_VERTICAL,
           create_animation, calls, printed >>

\* main.py: the module's buffers, run_simulation's flag, the functions it has
\* called and the status lines of the last call
mainVars == << SAFETY_BUFFER_HORIZONTAL, SAFETY_BUFFER_VERTICAL,
               create_animation, calls, printed >>

inputVars == << mission, actual_start_time,
                simulated_flights, buffer_horizontal, buffer_vertical, time_step >>
queryVars == << q_trajectory, q_time, q_position, q_interp >>

Pending == [pending |-> TRUE]

\* the arguments run_test_check / run_simulation pass to check_for_conflicts
primary_trajectory == built.value
mission_end_window == mission.mission_end_time
mission_start == primary_trajectory[1].time
mission_end == primary_trajectory[Len(primary_trajectory)].time

(***************************************************************************)
(* Actions.                                                                *)
(***************************************************************************)
\* primary_trajectory = convert_mission_to_trajectory(mission, start_time)
Build ==
    /\ pc = "start"
    /\ built' = convert_mission_to_trajectory(mission, actual_start_time)
    /\ pc' = IF built'.raised THEN "raised" ELSE "built"
    /\ UNCHANGED << inputVars, current_time, all_conflicts, report, sampled, raw,
                    queryVars,
                    mainVars >>

\* variant: the empty-primary test is lost, so primary_trajectory[0] raises
\* IndexError and nothing is returned
CheckEmpty_raises ==
    /\ pc = "built"
    /\ primary_trajectory = << >>
    /\ FALSE
    /\ UNCHANGED vars

\* check_for_conflicts, empty primary: return CLEAR
CheckEmpty ==
    /\ pc = "built"
    /\ primary_trajectory = << >>
    /\ report' = EmptyReport
    /\ pc' = "done"
    /\ UNCHANGED << inputVars, built, current_time, all_conflicts, sampled, raw,
                    queryVars,
                    mainVars >>

\* check_for_conflicts, the mission ends after its window: return the
\* single window conflict
CheckWindow ==
    /\ pc = "built"
    /\ primary_trajectory # << >>
    /\ WindowExceeded(primary_trajectory, mission_end_window)
    /\ report' = ConflictReport("CONFLICT_DETECTED",
                    << Conflict(mission_end,
                                primary_trajectory[Len(primary_trajectory)],
                                WINDOW_ID) >>)
    /\ pc' = "done"
    /\ UNCHANGED << inputVars, built, current_time, all_conflicts, sampled, raw,
                    queryVars,
                    mainVars >>

\* check_for_conflicts, otherwise: all_conflicts = [], current_time = mission_start
CheckBegin ==
    /\ pc = "built"
    /\ primary_trajectory # << >>
    /\ ~WindowExceeded(primary_trajectory, mission_end_window)
    /\ all_conflicts' = << >>
    /\ current_time' = mission_start
    /\ pc' = "sampling"
    /\ UNCHANGED << inputVars, built, report, sampled, raw, queryVars,
                    mainVars >>

\* iterations of one check that are followed
MaxSamples == 10

\* variant: an iteration removes from the caller's list the flights that have
\* no position at the instant
SampleStep_pruning ==
    /\ pc = "sampling"
    /\ Len(sampled) < MaxSamples
    /\ LoopCondition(current_time, mission_end)
    /\ simulated_flights' =
          SelectSeq(simulated_flights,
                    LAMBDA f : _find_drone_position(f.trajectory, current_time) # None)
    /\ sampled' = Append(sampled, current_time)
    /\ current_time' = FloatAdd(current_time, time_step)
    /\ UNCHANGED << mission, actual_start_time, buffer_horizontal, buffer_vertical,
                    time_step, built, pc, report, all_conflicts, raw, queryVars,
                    mainVars >>

\* one iteration of the while loop
SampleStep ==
    /\ pc = "sampling"
    /\ Len(sampled) < MaxSamples
    /\ LoopCondition(current_time, mission_end)
    /\ LET primary_pos == _find_drone_position(primary_trajectory, current_time)
           hits == IF primary_pos = None
                   THEN << >>
                   ELSE FlightLoop(primary_pos, simulated_flights, 1, current_time,
                                   buffer_horizontal, buffer_vertical)
       IN  /\ all_conflicts' = all_conflicts \o
                 [k \in 1..Len(hits) |->
                    Conflict(Round2(current_time),
                             RecordedLocation(primary_pos,
                                 _find_drone_position(
                                     simulated_flights[hits[k]].trajectory,
                                     current_time)),
                             simulated_flights[hits[k]].flight_id)]
           /\ raw' = raw \o [k \in 1..Len(hits) |-> [t |-> current_time, j |-> hits[k]]]
           /\ current_time' = FloatAdd(current_time, time_step)
    /\ sampled' = Append(sampled, current_time)
    /\ UNCHANGED << inputVars, built, pc, report, queryVars,
                    mainVars >>

\* the loop has ended: deduplicate and return
Finish ==
    /\ pc = "sampling"
    /\ ~LoopCondition(current_time, mission_end)
    /\ report' = FinalReport(all_conflicts)
    /\ pc' = "done"
    /\ UNCHANGED << inputVars, built, current_time, all_conflicts, sampled, raw,
                    queryVars,
                    mainVars >>

\* position = _find_drone_position(q_trajectory, q_time)
Lookup ==
    /\ pc = "query"
    /\ q_position = Pending
    /\ q_position' = _find_drone_position(q_trajectory, q_time)
    /\ UNCHANGED << inputVars, built, pc, current_time, all_conflicts, report,
                    sampled, raw, q_trajectory, q_time, q_interp, mainVars >>

\* interpolate_position(q_trajectory[i], q_trajectory[i+1], q_time) on a leg
Interpolate ==
    /\ pc = "query"
    /\ \E i \in 1..(Len(q_trajectory) - 1) :
          q_interp' = [leg |-> i,
                       position |-> interpolate_position(q_trajectory[i],
                                                         q_trajectory[i + 1], q_time)]
    /\ UNCHANGED << inputVars, built, pc, current_time, all_conflicts, report,
                    sampled, raw, q_trajectory, q_time, q_position, mainVars >>

(***************************************************************************)
(* main.py: run_simulation and change_safety_buffers                       *)
(***************************************************************************)
TIME_STEP == R(1, 2)

\* desired_start_time is the variable actual_start_time, the builder's start_time
desired_start_time == actual_start_time

\* if desired_start_time < primary_mission.mission_start_time: REJECTED, return
RunValidate ==
    /\ pc = "menu"
    /\ IF RLt(desired_start_time, mission.mission_start_time)
       THEN printed' = << "REJECTED" >> /\ pc' = "returned"
       ELSE printed' = << >> /\ pc' = "convert"
    /\ UNCHANGED << inputVars, built, current_time, all_conflicts, report, sampled,
                    raw, queryVars, SAFETY_BUFFER_HORIZONTAL,
                    SAFETY_BUFFER_VERTICAL, create_animation, calls >>

\* variant: a ValueError of the builder is swallowed and the check is run on
\* an empty trajectory
RunConvert_degraded ==
    /\ pc = "convert"
    /\ calls' = Append(calls, "convert_mission_to_trajectory")
    /\ LET r == convert_mission_to_trajectory(mission, desired_start_time)
       IN  built' = IF r.raised THEN Returned(<< >>) ELSE r
    /\ pc' = "call"
    /\ UNCHANGED << inputVars, current_time, all_conflicts, report, sampled, raw,
                    queryVars, SAFETY_BUFFER_HORIZONTAL, SAFETY_BUFFER_VERTICAL,
                    create_animation, printed >>

\* try: primary_trajectory = convert_mission_to_trajectory(...)
\* except ValueError: REJECTED, return
RunConvert ==
    /\ pc = "convert"
    /\ calls' = Append(calls, "convert_mission_to_trajectory")
    /\ built' = convert_mission_to_trajectory(mission, desired_start_time)
    /\ IF built'.raised
       THEN printed' = << "REJECTED" >> /\ pc' = "returned"
       ELSE printed' = printed /\ pc' = "call"
    /\ UNCHANGED << inputVars, current_time, all_conflicts, report, sampled, raw,
                    queryVars, SAFETY_BUFFER_HORIZONTAL, SAFETY_BUFFER_VERTICAL,
                    create_animation >>

\* report = check_for_conflicts(primary_trajectory, mission_end_time,
\* simulated_flights, SAFETY_BUFFER_HORIZONTAL, SAFETY_BUFFER_VERTICAL,
\* TIME_STEP): the call; its body is CheckEmpty .. Finish
RunCheck ==
    /\ pc = "call"
    /\ calls' = Append(calls, "check_for_conflicts")
    /\ buffer_horizontal' = SAFETY_BUFFER_HORIZONTAL
    /\ buffer_vertical' = SAFETY_BUFFER_VERTICAL
    /\ time_step' = TIME_STEP
    /\ pc' = "built"
    /\ UNCHANGED << mission, actual_start_time, simulated_flights, built,
                    current_time, all_conflicts, report, sampled, raw, queryVars,
                    SAFETY_BUFFER_HORIZONTAL, SAFETY_BUFFER_VERTICAL,
                    create_animation, printed >>

\* print the status; if create_animation: animate_simulation(...)
RunReport ==
    /\ pc = "done"
    /\ printed' = << report.status >>
    /\ calls' = IF create_animation
                THEN Append(calls, "animate_simulation")
                ELSE calls
    /\ pc' = "returned"
    /\ UNCHANGED << inputVars, built, current_time, all_conflicts, report, sampled,
                    raw, queryVars, SAFETY_BUFFER_HORIZONTAL,
                    SAFETY_BUFFER_VERTICAL, create_animation >>

\* what is typed at a prompt: entries that strip() empties, and entries
\* float() converts; float() raises ValueError on any other entry
BlankEntries == {"", " "}
float == [s \in {"3", "-1"} |-> IF s = "3" THEN R(3, 1) ELSE R(-1, 1)]
Entries == BlankEntries \cup DOMAIN float \cup {"abc"}
RaisesValueError(entry) == entry \notin BlankEntries /\ entry \notin DOMAIN float

\* the lines printed for one prompt
EntryOutput(entry) ==
    IF entry \in BlankEntries
    THEN << >>
    ELSE IF RaisesValueError(entry)
    THEN << "Invalid input. Please enter a number. Buffers not changed." >>
    ELSE IF RLt(float[entry], Zero)
    THEN << "Buffer cannot be negative. No changes made." >>
    ELSE << "buffer updated" >>

\* the value of a buffer after its prompt
EntryValue(entry, buffer) ==
    IF entry \in BlankEntries \/ RaisesValueError(entry)
    THEN buffer
    ELSE IF RLt(float[entry], Zero)
    THEN buffer
    ELSE float[entry]

\* change_safety_buffers() with the two entries typed: the vertical prompt is
\* reached only when the horizontal entry did not raise
change_safety_buffers(new_h_input, new_v_input) ==
    /\ pc = "menu"
    /\ SAFETY_BUFFER_HORIZONTAL' = EntryValue(new_h_input, SAFETY_BUFFER_HORIZONTAL)
    /\ SAFETY_BUFFER_VERTICAL' =
          IF RaisesValueError(new_h_input)
          THEN SAFETY_BUFFER_VERTICAL
          ELSE EntryValue(new_v_input, SAFETY_BUFFER_VERTICAL)
    /\ printed' =
          IF RaisesValueError(new_h_input)
          THEN EntryOutput(new_h_input)
          ELSE EntryOutput(new_h_input) \o EntryOutput(new_v_input)
    /\ UNCHANGED << inputVars, built, pc, current_time, all_conflicts, report,
                    sampled, raw, queryVars, create_animation, calls >>

ChangeSafetyBuffers ==
    \E new_h_input \in Entries, new_v_input \in Entries :
       change_safety_buffers(new_h_input, new_v_input)

(***************************************************************************)
(* Bounded inputs.                                                         *)
(***************************************************************************)
MaxWaypoints == 3          \* waypoints of a mission given to the builder alone
MaxPrimaryWaypoints == 2   \* waypoints of a mission that is built and checked
MaxFlights == 2            \* tracked flights of one check
MaxPoints == 3             \* timed points of a looked-up trajectory

I(k) == R(k, 1)
P(x, y, z) == Waypoint(I(x), I(y), I(z))
SeqsUpTo(S, n) == UNION {[1..k -> S] : k \in 0..n}

\* every leg has a length math.sqrt computes exactly
ExactLegs(w) ==
    \A i \in 1..(Len(w) - 1) :
        LET dx == w[i].x.n - w[i + 1].x.n
            dy == w[i].y.n - w[i + 1].y.n
            dz == w[i].z.n - w[i + 1].z.n
        IN  IsSquare(dx * dx + dy * dy + dz * dz)

NonDecreasing(tr) == \A i \in 1..(Len(tr) - 1) : RLe(tr[i].time, tr[i + 1].time)

\* the builder alone
BuilderWaypoints == {P(0, 0, 0), P(4, 0, 0), P(4, 3, 0), P(0, 0, 2)}
BuilderSpeeds == {I(-1), I(0), I(1), I(2), I(3)}
BuilderStarts == {I(0), R(1, 8), I(2)}

\* the position lookup alone
QueryPoints == {P(0, 0, 0), P(4, 2, 6)}
QueryPointTimes == {I(0), I(1), I(3)}
QueryTimedPoints ==
    {TimedWaypoint(p.x, p.y, p.z, t) : p \in QueryPoints, t \in QueryPointTimes}
QueryTimes == {I(-1), I(0), R(1, 2), I(1), I(2), I(3), I(4)}

\* a mission that is built and then checked: along the x axis, window [0, 2]
CheckWaypoints == {P(0, 0, 0), P(4, 0, 0)}
CheckSpeeds == {I(0), I(2), I(4)}
CheckStarts == {I(0), R(1, 8)}
CheckWindowStart == I(0)
CheckWindowEnd == I(2)
\* a window that ends before it starts, for the mission without waypoints
EmptyWindowEnds == {I(-1)}
Hover(p, t0, t1) ==
    << TimedWaypoint(p.x, p.y, p.z, t0), TimedWaypoint(p.x, p.y, p.z, t1) >>
HeadOn ==
    << TimedWaypoint(I(4), I(0), I(0), I(0)), TimedWaypoint(I(0), I(0), I(0), I(2)) >>
\* tracked flights: head-on along the primary's path, hovering beside, above
\* and near its midpoint, one with a single point and one with no point
FlightSet ==
    { SimulatedFlight("Drone-A", HeadOn),
      SimulatedFlight("Drone-B", Hover(P(2, 1, 1), I(1), I(3))),
      SimulatedFlight("Drone-B", Hover(P(2, 0, 2), I(0), I(2))),
      SimulatedFlight("Drone-A", Hover(P(2, 2, 0), I(0), I(2))),
      SimulatedFlight("Drone-B", << TimedWaypoint(I(2), I(0), I(0), I(1)) >>),
      SimulatedFlight("Drone-A", << >>) }
BufferPairs == {<< I(2), I(2) >>, << I(3), I(3) >>}
TimeSteps == {R(1, 2), R(3, 4)}

(***************************************************************************)
(* Specifications.                                                         *)
(***************************************************************************)
NoRun ==
    /\ built = None
    /\ current_time = None
    /\ all_conflicts = << >>
    /\ report = None
    /\ sampled = << >>
    /\ raw = << >>

\* main.py is not running: its buffers are the ones it is loaded with
NoMain ==
    /\ SAFETY_BUFFER_HORIZONTAL = R(5, 1)
    /\ SAFETY_BUFFER_VERTICAL = R(2, 1)
    /\ create_animation = FALSE
    /\ calls = << >>
    /\ printed = << >>

NoQuery ==
    /\ q_trajectory = << >>
    /\ q_time = Zero
    /\ q_position = Pending
    /\ q_interp = Pending

\* a mission is built and checked against tracked flights (run_test_check)
Init ==
    /\ mission \in {PrimaryMission(w, s, CheckWindowStart, CheckWindowEnd) :
                      w \in SeqsUpTo(CheckWaypoints, MaxPrimaryWaypoints),
                      s \in CheckSpeeds}
                  \cup {PrimaryMission(<< >>, I(2), CheckWindowStart, e) :
                          e \in EmptyWindowEnds}
    /\ actual_start_time \in CheckStarts
    /\ simulated_flights \in SeqsUpTo(FlightSet, MaxFlights)
    /\ \E b \in BufferPairs : buffer_horizontal = b[1] /\ buffer_vertical = b[2]
    /\ time_step \in TimeSteps
    /\ pc = "start"
    /\ NoRun
    /\ NoMain
    /\ NoQuery

Next == Build \/ CheckEmpty \/ CheckWindow \/ CheckBegin \/ SampleStep \/ Finish

Spec == Init /\ [][Next]_vars

\* the builder alone, on missions of up to MaxWaypoints waypoints
InitBuilder ==
    /\ mission \in {PrimaryMission(w, s, CheckWindowStart, CheckWindowEnd) :
                      w \in {v \in SeqsUpTo(BuilderWaypoints, MaxWaypoints) : ExactLegs(v)},
                      s \in BuilderSpeeds}
    /\ actual_start_time \in BuilderStarts
    /\ simulated_flights = << >>
    /\ buffer_horizontal = I(2)
    /\ buffer_vertical = I(2)
    /\ time_step = R(1, 2)
    /\ pc = "start"
    /\ NoRun
    /\ NoMain
    /\ NoQuery

NextBuilder == Build

SpecBuilder == InitBuilder /\ [][NextBuilder]_vars

\* the position lookup alone, on trajectories of up to MaxPoints points
InitPosition ==
    /\ mission = PrimaryMission(<< >>, I(1), CheckWindowStart, CheckWindowEnd)
    /\ actual_start_time = I(0)
    /\ simulated_flights = << >>
    /\ buffer_horizontal = I(2)
    /\ buffer_vertical = I(2)
    /\ time_step = R(1, 2)
    /\ pc = "query"
    /\ NoRun
    /\ NoMain
    /\ q_trajectory \in {tr \in SeqsUpTo(QueryTimedPoints, MaxPoints) : NonDecreasing(tr)}
    /\ q_time \in QueryTimes
    /\ q_position = Pending
    /\ q_interp = Pending

NextPosition == Lookup \/ Interpolate

SpecPosition == InitPosition /\ [][NextPosition]_vars

\* one mission flown at several departure times and cadences: the path
\* between two points in either direction, a single waypoint, a waypoint
\* visited twice, no waypoint
ScenarioWaypoints ==
    { << P(0, 0, 0), P(4, 0, 0) >>, << P(4, 0, 0), P(0, 0, 0) >>,
      << P(0, 0, 0) >>, << P(0, 0, 0), P(0, 0, 0) >>, << >> }
\* << speed, time_step >>: the last one samples several instants within one
\* hundredth of a second
ScenarioCadences ==
    { << I(2), R(1, 2) >>, << I(4), R(3, 4) >>, << I(256), R(1, 256) >> }
ScenarioStarts == {I(0), R(1, 8), I(2), R(17, 8), R(7, 2)}
ScenarioWindowEnd == I(5)
\* a departure time of 2^24 s with a step of 2^-31 s (rounded up), and the
\* missions that stay in place
LateStart == I(2 ^ 24)
TinyStep == R(1, 2 ^ 30 + (2 ^ 30 - 1))
StationaryWaypoints == { << P(0, 0, 0) >>, << P(0, 0, 0), P(0, 0, 0) >> }
ScenarioFlights ==
    { SimulatedFlight("Drone-A", HeadOn),
      SimulatedFlight("Drone-A", Hover(P(2, 1, 1), I(0), I(3))),
      SimulatedFlight("Drone-B", Hover(P(0, 1, 1), I(0), I(3))) }
LateFlights ==
    { SimulatedFlight("Drone-B", Hover(P(0, 1, 1), LateStart, RAdd(LateStart, I(3)))),
      SimulatedFlight("Drone-A", Hover(P(4, 1, 1), LateStart, RAdd(LateStart, I(3)))) }

InitScenario ==
    /\ \/ \E w \in ScenarioWaypoints, c \in ScenarioCadences :
             /\ mission = PrimaryMission(w, c[1], CheckWindowStart, ScenarioWindowEnd)
             /\ time_step = c[2]
             /\ actual_start_time \in ScenarioStarts
             /\ simulated_flights \in SeqsUpTo(ScenarioFlights, MaxFlights)
       \/ \E w \in StationaryWaypoints :
             /\ mission = PrimaryMission(w, I(2), CheckWindowStart,
                                         RAdd(LateStart, ScenarioWindowEnd))
             /\ time_step = TinyStep
             /\ actual_start_time = LateStart
             /\ simulated_flights \in SeqsUpTo(LateFlights, MaxFlights)
    /\ \E b \in BufferPairs : buffer_horizontal = b[1] /\ buffer_vertical = b[2]
    /\ pc = "start"
    /\ NoRun
    /\ NoMain
    /\ NoQuery

SpecScenario == InitScenario /\ [][Next]_vars

(***************************************************************************)
(* check_for_conflicts at the edges of its parameters: a mission that ends *)
(* exactly at window_end, buffers of zero, the buffers of main.py and a    *)
(* larger vertical one, tracked flights that share an id or carry the id   *)
(* of the window entry, and a primary of one timed point.                  *)
(***************************************************************************)
\* << waypoints, speed, time_step >>: the second mission samples several
\* instants within one hundredth of a second
ClearanceMissions ==
    { << << P(0, 0, 0), P(4, 0, 0) >>, I(2), R(1, 2) >>,
      << << P(0, 0, 0), P(4, 0, 0) >>, I(256), R(1, 256) >>,
      << << P(0, 0, 0), P(0, 0, 0) >>, I(0), R(1, 2) >>,
      << << P(0, 0, 0), P(0, 0, 0) >>, I(2), R(1, 2) >>,
      << << >>, I(2), R(1, 2) >> }
ClearanceStarts == {I(0), I(1), I(2)}
ClearanceWindowEnd == I(3)
ClearanceFlights ==
    { SimulatedFlight("Drone-A", Hover(P(2, 0, 25), I(0), I(5))),
      SimulatedFlight("Drone-A", Hover(P(0, 0, 0), I(0), I(5))),
      SimulatedFlight(WINDOW_ID, Hover(P(4, 0, 0), I(0), I(5))) }
ClearanceBuffers ==
    { << I(5), I(2) >>, << I(5), I(30) >>, << I(2), I(30) >>,
      << I(0), I(2) >>, << I(5), I(0) >> }

InitClearance ==
    /\ \E m \in ClearanceMissions :
          /\ mission = PrimaryMission(m[1], m[2], CheckWindowStart, ClearanceWindowEnd)
          /\ time_step = m[3]
    /\ actual_start_time \in ClearanceStarts
    /\ simulated_flights \in SeqsUpTo(ClearanceFlights, MaxFlights)
    /\ \E b \in ClearanceBuffers : buffer_horizontal = b[1] /\ buffer_vertical = b[2]
    /\ pc = "start"
    /\ NoRun
    /\ NoMain
    /\ NoQuery

SpecClearance == InitClearance /\ [][Next]_vars

(***************************************************************************)
(* main.py: the buffers are changed from the menu, then one simulation is  *)
(* run.                                                                    *)
(***************************************************************************)
\* << waypoints, speed >>
MainMissions ==
    { << << P(0, 0, 0), P(4, 0, 0) >>, I(2) >>,
      << << P(0, 0, 0), P(4, 0, 0) >>, I(0) >>,
      << << >>, I(2) >> }
MainWindowStarts == {I(0), I(1)}
MainDesiredStarts == {I(0), I(1)}
MainFlights == { SimulatedFlight("Drone-A", HeadOn) }

InitMain ==
    /\ \E m \in MainMissions, s \in MainWindowStarts :
          mission = PrimaryMission(m[1], m[2], s, CheckWindowEnd)
    /\ actual_start_time \in MainDesiredStarts
    /\ simulated_flights \in SeqsUpTo(MainFlights, MaxFlights)
    /\ buffer_horizontal = None
    /\ buffer_vertical = None
    /\ time_step = None
    /\ SAFETY_BUFFER_HORIZONTAL = R(5, 1)
    /\ SAFETY_BUFFER_VERTICAL = R(2, 1)
    /\ create_animation \in BOOLEAN
    /\ calls = << >>
    /\ printed = << >>
    /\ pc = "menu"
    /\ NoRun
    /\ NoQuery

NextMain ==
    \/ ChangeSafetyBuffers
    \/ RunValidate \/ RunConvert \/ RunCheck
    \/ CheckEmpty \/ CheckWindow \/ CheckBegin \/ SampleStep \/ Finish
    \/ RunReport

SpecMain == InitMain /\ [][NextMain]_vars

(***************************************************************************)
(* Properties.                                                             *)
(***************************************************************************)
Last(tr) == tr[Len(tr)]
Range(f) == {f[k] : k \in DOMAIN f}
XYZ(p) == Waypoint(p.x, p.y, p.z)

\* the builder returned a trajectory, which check_for_conflicts was given
Checked == pc \in {"built", "sampling", "done"}

\* C1 (window precedence): when the non-empty primary trajectory ends after
\* window_end, no sampling takes place and the report is CONFLICT_DETECTED
\* with exactly one conflict: id MISSION_TIME_WINDOW_EXCEEDED, time the last
\* point's time, location the last point, whatever the tracked flights are.
C1_WindowPrecedence ==
    (/\ Checked
     /\ built.value # << >>
     /\ RLt(mission.mission_end_time, Last(built.value).time))
    => /\ pc # "sampling"
       /\ sampled = << >>
       /\ (pc = "done" =>
             report = [status |-> "CONFLICT_DETECTED",
                       conflicts |->
                         << [time |-> Last(built.value).time,
                             location |-> Last(built.value),
                             conflicted_with_flight_id |->
                                 "MISSION_TIME_WINDOW_EXCEEDED"] >>])

\* a window violation is reported although a tracked flight is inside the
\* safety buffer one step after the start
C1_Witness ==
    /\ pc = "done"
    /\ built.value # << >>
    /\ RLt(mission.mission_end_time, Last(built.value).time)
    /\ report.status = "CONFLICT_DETECTED"
    /\ \E j \in 1..Len(simulated_flights) :
          LET t == RAdd(built.value[1].time, time_step)
              pp == _find_drone_position(built.value, t)
              sp == _find_drone_position(simulated_flights[j].trajectory, t)
          IN  /\ pp # None
              /\ sp # None
              /\ InBuffer(pp, sp, buffer_horizontal, buffer_vertical)

\* the safety cylinder, as the claim states it
C2_HorizontallyClose(p, q) ==
    LET dx == RSub(p.x, q.x)
        dy == RSub(p.y, q.y)
    IN  RLt(RAdd(RMul(dx, dx), RMul(dy, dy)),
            RMul(buffer_horizontal, buffer_horizontal))
C2_VerticallyClose(p, q) == RLt(RAbs(RSub(p.z, q.z)), buffer_vertical)
C2_BothPresent(j, t) ==
    /\ _find_drone_position(built.value, t) # None
    /\ _find_drone_position(simulated_flights[j].trajectory, t) # None
C2_PrimaryAt(t) == _find_drone_position(built.value, t)
C2_FlightAt(j, t) == _find_drone_position(simulated_flights[j].trajectory, t)

\* C2 (cylindrical buffer test): a conflict with tracked flight j is recorded
\* for the examined instant t if and only if the primary and the flight both
\* have a position at t, dx*dx + dy*dy < buffer_horizontal^2 and
\* |dz| < buffer_vertical (both strict, both required); each recorded
\* conflict carries that flight's id and the rounded instant.
C2_BufferTest ==
    pc \in {"sampling", "done"} =>
      /\ \A k \in 1..Len(sampled) : \A j \in 1..Len(simulated_flights) :
            ([t |-> sampled[k], j |-> j] \in Range(raw))
            <=> (/\ C2_BothPresent(j, sampled[k])
                 /\ C2_HorizontallyClose(C2_PrimaryAt(sampled[k]),
                                         C2_FlightAt(j, sampled[k]))
                 /\ C2_VerticallyClose(C2_PrimaryAt(sampled[k]),
                                       C2_FlightAt(j, sampled[k])))
      /\ Len(all_conflicts) = Len(raw)
      /\ \A m \in 1..Len(raw) :
            /\ all_conflicts[m].conflicted_with_flight_id =
                  simulated_flights[raw[m].j].flight_id
            /\ all_conflicts[m].time = Round2(raw[m].t)

\* a conflict was recorded, and a flight that is close only horizontally and a
\* flight that is close only vertically at an examined instant were not
C2_Witness ==
    /\ pc = "done"
    /\ raw # << >>
    /\ \E k \in 1..Len(sampled) : \E j \in 1..Len(simulated_flights) :
          /\ C2_BothPresent(j, sampled[k])
          /\ C2_HorizontallyClose(C2_PrimaryAt(sampled[k]), C2_FlightAt(j, sampled[k]))
          /\ ~C2_VerticallyClose(C2_PrimaryAt(sampled[k]), C2_FlightAt(j, sampled[k]))
          /\ [t |-> sampled[k], j |-> j] \notin Range(raw)
    /\ \E k \in 1..Len(sampled) : \E j \in 1..Len(simulated_flights) :
          /\ C2_BothPresent(j, sampled[k])
          /\ ~C2_HorizontallyClose(C2_PrimaryAt(sampled[k]), C2_FlightAt(j, sampled[k]))
          /\ C2_VerticallyClose(C2_PrimaryAt(sampled[k]), C2_FlightAt(j, sampled[k]))
          /\ [t |-> sampled[k], j |-> j] \notin Range(raw)

\* C3: every returned ConflictReport has an empty conflicts list if and only
\* if its status is CLEAR.
C3_EmptyIffClear ==
    report # None => ((report.conflicts = << >>) <=> (report.status = "CLEAR"))

\* the sampling pass returned CONFLICT_DETECTED with conflicts
C3_Witness ==
    /\ pc = "done"
    /\ sampled # << >>
    /\ report.status = "CONFLICT_DETECTED"
    /\ report.conflicts # << >>

\* C4, as claimed: for a non-empty trajectory with non-decreasing times and
\* first.time <= t <= last.time, _find_drone_position returns a position.
C4_PositionWithinSpan ==
    (/\ q_position # Pending
     /\ q_trajectory # << >>
     /\ RLe(q_trajectory[1].time, q_time)
     /\ RLe(q_time, Last(q_trajectory).time))
    => q_position # None

\* C5 (absence law): for a trajectory with non-decreasing times and t strictly
\* before its first point's time or strictly after its last point's time,
\* _find_drone_position returns None (no clamping to an endpoint).
C5_AbsenceLaw ==
    (/\ q_position # Pending
     /\ q_trajectory # << >>
     /\ \/ RLt(q_time, q_trajectory[1].time)
        \/ RLt(Last(q_trajectory).time, q_time))
    => q_position = None

\* a lookup after the last point of a trajectory with several legs
C5_Witness ==
    /\ q_position = None
    /\ Len(q_trajectory) >= 3
    /\ RLt(q_trajectory[1].time, Last(q_trajectory).time)
    /\ RLt(Last(q_trajectory).time, q_time)

\* the laws of interpolate_position on the leg [A, B] at time t, result r
C6_StartLaw(A, B, t, r) == RLe(t, A.time) => r = XYZ(A)
C6_EndLaw(A, B, t, r) == RLe(B.time, t) => r = XYZ(B)
C6_EndLawPastStart(A, B, t, r) == (RLe(B.time, t) /\ RLt(A.time, t)) => r = XYZ(B)
C6_Blend(a, b, A, B, t, c) ==
    RMul(RSub(c, a), RSub(B.time, A.time)) = RMul(RSub(b, a), RSub(t, A.time))
C6_AffineLaw(A, B, t, r) ==
    (RLt(A.time, t) /\ RLt(t, B.time))
    => /\ C6_Blend(A.x, B.x, A, B, t, r.x)
       /\ C6_Blend(A.y, B.y, A, B, t, r.y)
       /\ C6_Blend(A.z, B.z, A, B, t, r.z)

\* C6, as claimed (interpolation boundary law): on a leg [A, B] with
\* A.time <= B.time, interpolate_position returns A's coordinates for every
\* t <= A.time, B's coordinates for every t >= B.time, and the affine blend of
\* each coordinate for A.time < t < B.time.
C6_BoundaryLawAsClaimed ==
    q_interp # Pending =>
      LET A == q_trajectory[q_interp.leg]
          B == q_trajectory[q_interp.leg + 1]
      IN  /\ C6_StartLaw(A, B, q_time, q_interp.position)
          /\ C6_EndLaw(A, B, q_time, q_interp.position)
          /\ C6_AffineLaw(A, B, q_time, q_interp.position)

\* C6, amended: A's coordinates for every t <= A.time, B's coordinates for
\* every t >= B.time that is also after A.time (on a zero-duration leg the
\* start point wins at t = A.time = B.time), the affine blend in between.
C6_BoundaryLaw ==
    q_interp # Pending =>
      LET A == q_trajectory[q_interp.leg]
          B == q_trajectory[q_interp.leg + 1]
      IN  /\ C6_StartLaw(A, B, q_time, q_interp.position)
          /\ C6_EndLawPastStart(A, B, q_time, q_interp.position)
          /\ C6_AffineLaw(A, B, q_time, q_interp.position)

\* a time strictly inside a leg whose ends differ in x, y and z
C6_Witness ==
    /\ q_interp # Pending
    /\ LET A == q_trajectory[q_interp.leg]
           B == q_trajectory[q_interp.leg + 1]
           r == q_interp.position
       IN  /\ RLt(A.time, q_time)
           /\ RLt(q_time, B.time)
           /\ r.x \notin {A.x, B.x}
           /\ r.y \notin {A.y, B.y}
           /\ r.z \notin {A.z, B.z}

\* the length of a leg between waypoints with integer coordinates
C7_Leg(a, b) ==
    LET dx == a.x.n - b.x.n
        dy == a.y.n - b.y.n
        dz == a.z.n - b.z.n
    IN  I(ISqrt(dx * dx + dy * dy + dz * dz))
RECURSIVE C7_PathLength(_, _)
C7_PathLength(w, i) ==
    IF i >= Len(w) THEN Zero ELSE RAdd(C7_Leg(w[i], w[i + 1]), C7_PathLength(w, i + 1))

C8_InvalidSpeedIff ==
    pc \in {"built", "raised"} =>
      /\ built.raised
           <=> (/\ RLe(mission.speed, Zero)
                /\ \E i \in 1..(Len(mission.waypoints) - 1) :
                      mission.waypoints[i] # mission.waypoints[i + 1])
      /\ (pc = "raised") <=> built.raised
      /\ built.raised => built.value = None

\* the error is raised on the second leg, after a first leg of zero length
C8_Witness ==
    /\ pc = "raised"
    /\ built.raised
    /\ Len(mission.waypoints) >= 3
    /\ mission.waypoints[1] = mission.waypoints[2]
    /\ mission.waypoints[2] # mission.waypoints[3]

\* C9: for speed <= 0 and waypoints (one or more) that all coincide, the
\* builder succeeds and returns exactly one timed point: the first waypoint
\* at the start time.
C9_StationaryMission ==
    (/\ pc \in {"built", "raised"}
     /\ RLe(mission.speed, Zero)
     /\ mission.waypoints # << >>
     /\ \A i \in 1..Len(mission.waypoints) : mission.waypoints[i] = mission.waypoints[1])
    => /\ pc = "built"
       /\ built = [raised |-> FALSE,
                   value |-> << [x |-> mission.waypoints[1].x,
                                 y |-> mission.waypoints[1].y,
                                 z |-> mission.waypoints[1].z,
                                 time |-> actual_start_time] >>]

\* a waypoint repeated three times at speed zero
C9_Witness ==
    /\ pc = "built"
    /\ mission.speed = Zero
    /\ Len(mission.waypoints) >= 3
    /\ \A i \in 1..Len(mission.waypoints) : mission.waypoints[i] = mission.waypoints[1]
    /\ Len(built.value) = 1

\* the (other_id, time) pair of conflict k occurs at no earlier index
C10_FirstOccurrence(c, k) ==
    \A m \in 1..(k - 1) :
        ~(/\ c[m].conflicted_with_flight_id = c[k].conflicted_with_flight_id
          /\ c[m].time = c[k].time)
RECURSIVE C10_KeepFirst(_, _)
C10_KeepFirst(c, k) ==
    IF k > Len(c) THEN << >>
    ELSE (IF C10_FirstOccurrence(c, k) THEN << c[k] >> ELSE << >>)
         \o C10_KeepFirst(c, k + 1)

\* C10 (deduplication): the report's conflicts are the raw detections, in
\* detection order, without the later occurrences of an (other_id, rounded
\* time) pair; no such pair appears twice in a report.
C10_Deduplication ==
    pc = "done" =>
      /\ sampled # << >> => report.conflicts = C10_KeepFirst(all_conflicts, 1)
      /\ \A k \in 1..Len(report.conflicts) : C10_FirstOccurrence(report.conflicts, k)

\* a repeated pair was dropped from between two entries that were kept
C10_Witness ==
    /\ pc = "done"
    /\ Len(report.conflicts) >= 3
    /\ \E k \in 2..(Len(all_conflicts) - 1) : ~C10_FirstOccurrence(all_conflicts, k)

\* C11: an empty primary trajectory is reported CLEAR with no conflicts, for
\* every window end, tracked flights, buffers and step, and neither the
\* window check nor any sampling takes place.
C11_EmptyPrimaryClear ==
    (Checked /\ built.value = << >>)
    => /\ pc # "sampling"
       /\ sampled = << >>
       /\ all_conflicts = << >>
       /\ (pc = "done" => report = [status |-> "CLEAR", conflicts |-> << >>])

\* the empty primary was checked under a window that ended before the start,
\* with two tracked flights
C11_Witness ==
    /\ pc = "done"
    /\ built.value = << >>
    /\ RLt(mission.mission_end_time, actual_start_time)
    /\ Len(simulated_flights) >= 2
    /\ report.status = "CLEAR"

\* C13: check_for_conflicts (and the lookups it makes) never modifies its
\* inputs: in every step of a check the primary trajectory, the list of
\* tracked flights with their ids and trajectories, the window, the buffers
\* and the step stay as they were.
C13_InputsUntouched ==
    [][Checked =>
         /\ built' = built
         /\ simulated_flights' = simulated_flights
         /\ mission' = mission
         /\ buffer_horizontal' = buffer_horizontal
         /\ buffer_vertical' = buffer_vertical
         /\ time_step' = time_step]_vars

\* a check that sampled several instants against several flights, one of
\* which had no position at some instant, and recorded conflicts
C13_Witness ==
    /\ pc = "done"
    /\ Len(sampled) >= 3
    /\ Len(simulated_flights) >= 2
    /\ raw # << >>
    /\ \E j \in 1..Len(simulated_flights) :
          _find_drone_position(simulated_flights[j].trajectory, sampled[1]) = None

\* a ConflictReport: a status and a list of Conflict values
C14_WellFormed(r) ==
    /\ DOMAIN r = {"status", "conflicts"}
    /\ r.status \in {"CLEAR", "CONFLICT_DETECTED"}
    /\ \A k \in 1..Len(r.conflicts) :
          /\ DOMAIN r.conflicts[k] = {"time", "location", "conflicted_with_flight_id"}
          /\ DOMAIN r.conflicts[k].time = {"n", "d"}
          /\ {"x", "y", "z"} \subseteq DOMAIN r.conflicts[k].location

\* a lookup's result: None or a point
C14_IsPosition(p) == p = None \/ DOMAIN p = {"x", "y", "z"}

C15_Bound ==
    LET q == RDiv(RSub(Last(built.value).time, built.value[1].time), time_step)
    IN  (q.n \div q.d) + 1

\* C15: the sampling loop terminates after examining at most
\* floor((mission_finish - mission_start) / step) + 1 instants, skipped
\* iterations included: no check ever examines more instants than that.
C15_BoundedSampling ==
    (pc \in {"sampling", "done"} /\ built.value # << >>)
    => Len(sampled) <= C15_Bound

\* C16 (sampling cadence): the instants examined are mission_start,
\* mission_start + step, mission_start + 2*step, ... (each one step after the
\* one before) while that is <= mission_finish, and once the loop has ended
\* the last one lies in (mission_finish - step, mission_finish].
C16_Cadence ==
    pc \in {"sampling", "done"} =>
      /\ sampled # << >> => sampled[1] = built.value[1].time
      /\ \A k \in 1..Len(sampled) : RLe(sampled[k], Last(built.value).time)
      /\ \A k \in 2..Len(sampled) : RSub(sampled[k], sampled[k - 1]) = time_step
      /\ (pc = "sampling" /\ sampled # << >>)
         => RSub(current_time, Last(sampled)) = time_step
      /\ (pc = "done" /\ built.value # << >>
             /\ ~RLt(mission.mission_end_time, Last(built.value).time))
         => /\ sampled # << >>
            /\ RLt(RSub(Last(built.value).time, time_step), Last(sampled))
            /\ RLe(Last(sampled), Last(built.value).time)

\* the time spans of the primary and of tracked flight j have no instant in
\* common (a flight without points has no span)
C12_Disjoint(j) ==
    LET tr == simulated_flights[j].trajectory
    IN  \/ tr = << >>
        \/ RLt(Last(tr).time, built.value[1].time)
        \/ RLt(Last(built.value).time, tr[1].time)

\* the mission flown from departure time s breaches the buffer of flight j
\* at instant t
C12_BreachAt(s, j, t) ==
    LET alt == convert_mission_to_trajectory(mission, s)
    IN  /\ ~alt.raised
        /\ _find_drone_position(alt.value, t) # None
        /\ _find_drone_position(simulated_flights[j].trajectory, t) # None
        /\ InBuffer(_find_drone_position(alt.value, t),
                    _find_drone_position(simulated_flights[j].trajectory, t),
                    buffer_horizontal, buffer_vertical)

\* C12 (deconfliction by departure shift): when the trajectory built for the
\* chosen start_time finishes at or before window_end and its time span
\* overlaps the span of no tracked flight, no conflict is recorded and the
\* report is CLEAR, also when the same mission would conflict at another
\* departure time.
C12_DepartureShift ==
    (/\ Checked
     /\ built.value # << >>
     /\ ~RLt(mission.mission_end_time, Last(built.value).time)
     /\ \A j \in 1..Len(simulated_flights) : C12_Disjoint(j))
    => /\ all_conflicts = << >>
       /\ (pc = "done" => report = [status |-> "CLEAR", conflicts |-> << >>])

\* a mission that departs after the tracked flight has ended was sampled and
\* reported CLEAR, although departing at 0 it breaches that flight's buffer
C12_Witness ==
    /\ pc = "done"
    /\ Len(sampled) >= 2
    /\ report.status = "CLEAR"
    /\ simulated_flights # << >>
    /\ \A j \in 1..Len(simulated_flights) : C12_Disjoint(j)
    /\ \E j \in 1..Len(simulated_flights) : C12_BreachAt(I(0), j, I(1))

\* the positions in all_conflicts (and raw) of the entries that the report
\* keeps, in order
C17_Kept ==
    SelectSeq([m \in 1..Len(all_conflicts) |-> m],
              LAMBDA m : C10_FirstOccurrence(all_conflicts, m))

\* C17 as claimed: times are non-decreasing, and entries with the same time
\* are in the order of their flights in the tracked-flight list.
C17_OrderAsClaimed ==
    (pc = "done" /\ sampled # << >>) =>
      /\ Len(report.conflicts) = Len(C17_Kept)
      /\ \A k \in 1..Len(C17_Kept) : \A l \in (k + 1)..Len(C17_Kept) :
            /\ RLe(report.conflicts[k].time, report.conflicts[l].time)
            /\ report.conflicts[k].time = report.conflicts[l].time
               => raw[C17_Kept[k]].j < raw[C17_Kept[l]].j

\* C17: the conflicts of a report are in non-decreasing order of time and in
\* the order of the instants at which they were detected; entries detected at
\* the same instant are in the order of their flights in the tracked-flight
\* list.
C17_Order ==
    (pc = "done" /\ sampled # << >>) =>
      /\ Len(report.conflicts) = Len(C17_Kept)
      /\ \A k \in 1..Len(C17_Kept) : \A l \in (k + 1)..Len(C17_Kept) :
            /\ RLe(report.conflicts[k].time, report.conflicts[l].time)
            /\ RLe(raw[C17_Kept[k]].t, raw[C17_Kept[l]].t)
            /\ raw[C17_Kept[k]].t = raw[C17_Kept[l]].t
               => raw[C17_Kept[k]].j < raw[C17_Kept[l]].j

\* a report with two entries detected at one instant, and two entries with
\* the same time detected at different instants
C17_Witness ==
    /\ pc = "done"
    /\ \E k \in 1..Len(C17_Kept) : \E l \in (k + 1)..Len(C17_Kept) :
          raw[C17_Kept[k]].t = raw[C17_Kept[l]].t
    /\ \E k \in 1..Len(C17_Kept) : \E l \in (k + 1)..Len(C17_Kept) :
          /\ raw[C17_Kept[k]].t # raw[C17_Kept[l]].t
          /\ report.conflicts[k].time = report.conflicts[l].time

\* x is t rounded to 2 decimal places: a whole number of hundredths, at most
\* half a hundredth from t
C19_IsRounded(x, t) ==
    /\ 100 % x.d = 0
    /\ RLe(RAbs(RSub(x, t)), R(1, 200))

\* detections m1 and m2 are of the same flight (the same id) at instants
\* that round to the same time
C19_SameKey(m1, m2) ==
    /\ simulated_flights[raw[m1].j].flight_id = simulated_flights[raw[m2].j].flight_id
    /\ all_conflicts[m1].time = all_conflicts[m2].time

\* C19 (rounding before deduplication): the time of every recorded conflict is
\* its sample instant rounded to 2 decimal places, and the detections of one
\* flight at instants that round to the same time leave a single entry in the
\* report, with the primary's position at the earliest of those instants.
C19_RoundThenDedup ==
    pc \in {"sampling", "done"} =>
      /\ Len(raw) = Len(all_conflicts)
      /\ \A m \in 1..Len(raw) : C19_IsRounded(all_conflicts[m].time, raw[m].t)
      /\ (pc = "done" /\ sampled # << >>) =>
           \A m \in 1..Len(raw) :
              LET first == CHOOSE a \in 1..m :
                              /\ C19_SameKey(a, m)
                              /\ \A b \in 1..(a - 1) : ~C19_SameKey(b, m)
                  same == {k \in 1..Len(report.conflicts) :
                              /\ report.conflicts[k].conflicted_with_flight_id
                                    = simulated_flights[raw[m].j].flight_id
                              /\ report.conflicts[k].time = all_conflicts[m].time}
              IN  \E k \in same :
                     /\ same = {k}
                     /\ report.conflicts[k].location
                           = _find_drone_position(built.value, raw[first].t)

\* one flight was detected at two instants less than a hundredth apart, at
\* different places, and the two detections have the same time
C19_Witness ==
    /\ pc = "done"
    /\ \E m1 \in 1..Len(raw) : \E m2 \in (m1 + 1)..Len(raw) :
          /\ raw[m1].j = raw[m2].j
          /\ C19_SameKey(m1, m2)
          /\ \A b \in 1..(m1 - 1) : ~C19_SameKey(b, m1)
          /\ raw[m1].t # raw[m2].t
          /\ RLt(RSub(raw[m2].t, raw[m1].t), R(1, 100))
          /\ all_conflicts[m1].location # all_conflicts[m2].location
          /\ \E k \in 1..Len(report.conflicts) : report.conflicts[k] = all_conflicts[m1]

\* entry e is backed by sample instant t and tracked flight j
C20_BackedBy(e, j, t) ==
    /\ e.conflicted_with_flight_id = simulated_flights[j].flight_id
    /\ e.time = Round2(t)
    /\ RLe(built.value[1].time, t) /\ RLe(t, Last(built.value).time)
    /\ simulated_flights[j].trajectory # << >>
    /\ RLe(simulated_flights[j].trajectory[1].time, t)
    /\ RLe(t, Last(simulated_flights[j].trajectory).time)
    /\ e.location = _find_drone_position(built.value, t)

\* C20: every entry of a report made after sampling carries the id of a
\* tracked flight, the rounded time of an examined instant that lies within
\* the primary's and that flight's time spans, and the primary's position at
\* that instant.
C20_BackedBySample ==
    (pc = "done" /\ sampled # << >>) =>
      \A k \in 1..Len(report.conflicts) :
         \E j \in 1..Len(simulated_flights) : \E i \in 1..Len(sampled) :
            C20_BackedBy(report.conflicts[k], j, sampled[i])

\* an entry whose location differs from the position of the flight it names
C20_Witness ==
    /\ pc = "done"
    /\ sampled # << >>
    /\ \E k \in 1..Len(report.conflicts) :
         \E j \in 1..Len(simulated_flights) : \E i \in 1..Len(sampled) :
            /\ C20_BackedBy(report.conflicts[k], j, sampled[i])
            /\ _find_drone_position(simulated_flights[j].trajectory, sampled[i])
                  # report.conflicts[k].location

\* C21: for speed > 0 and n >= 1 waypoints the builder returns exactly n
\* timed points, the i-th at the i-th waypoint (repeated waypoints kept), the
\* first stamped with start_time and each later one with the time of the one
\* before plus the length of its leg divided by the speed.
C21_PointPerWaypoint ==
    (/\ pc \in {"built", "raised"}
     /\ RLt(Zero, mission.speed)
     /\ mission.waypoints # << >>)
    => /\ pc = "built"
       /\ Len(built.value) = Len(mission.waypoints)
       /\ \A i \in 1..Len(mission.waypoints) :
             /\ i \in DOMAIN built.value
             /\ XYZ(built.value[i]) = mission.waypoints[i]
       /\ built.value[1].time = actual_start_time
       /\ \A i \in 2..Len(built.value) :
             built.value[i].time
                = RAdd(built.value[i - 1].time,
                       RDiv(C7_Leg(mission.waypoints[i - 1], mission.waypoints[i]),
                            mission.speed))

\* a mission that comes back to its first waypoint and stays there: the
\* repeated waypoint is kept, the last leg has no duration
C21_Witness ==
    /\ pc = "built"
    /\ RLt(I(1), mission.speed)
    /\ Len(mission.waypoints) = 3
    /\ mission.waypoints[1] # mission.waypoints[2]
    /\ mission.waypoints[2] = mission.waypoints[3]
    /\ Len(built.value) = 3
    /\ built.value[2].time = built.value[3].time
    /\ RLt(built.value[1].time, built.value[2].time)

\* the shifts of the start time that are compared
C25_Shifts == {R(-1, 8), R(1, 8), I(2)}

\* the mission with another time window
C25_OtherWindow(m) ==
    [m EXCEPT !.mission_start_time = I(3), !.mission_end_time = I(1)]

C22_ZeroLegsAtQuery ==
    { i \in 1..(Len(q_trajectory) - 1) :
         /\ q_trajectory[i].time = q_trajectory[i + 1].time
         /\ q_trajectory[i].time = q_time }

\* the first point of the looked-up trajectory whose time is q_time
C22_FirstPointAtQuery ==
    CHOOSE f \in 1..Len(q_trajectory) :
       /\ q_trajectory[f].time = q_time
       /\ \A g \in 1..(f - 1) : q_trajectory[g].time # q_time

\* C22 as claimed: at the time of a zero-duration leg the lookup returns the
\* coordinates of that leg's start point, for every such leg, also when several
\* zero-duration legs with different coordinates follow one another.
C22_EveryZeroLegStart ==
    (q_position # Pending) =>
       \A i \in C22_ZeroLegsAtQuery :
          /\ q_position # None
          /\ q_position = XYZ(q_trajectory[i])

\* C22 (zero-duration legs, amended): for a trajectory with non-decreasing
\* times and a zero-duration leg at time t, the lookup at t returns a position
\* (no division by zero, never None), namely the coordinates of the first point
\* of the trajectory whose time is t; that is the leg's own start point for the
\* first zero-duration leg at t, and for a later one only when coordinates agree.
C22_FirstZeroLegStart ==
    (q_position # Pending /\ C22_ZeroLegsAtQuery # {}) =>
       /\ q_position # None
       /\ q_position = XYZ(q_trajectory[C22_FirstPointAtQuery])
       /\ \A i \in C22_ZeroLegsAtQuery :
             (\A g \in 1..(i - 1) : q_trajectory[g].time # q_time)
                => q_position = XYZ(q_trajectory[i])

\* two zero-duration legs with different start coordinates at the looked-up time
C22_Witness ==
    /\ q_position # Pending
    /\ q_position # None
    /\ \E i, j \in C22_ZeroLegsAtQuery :
          /\ i < j
          /\ XYZ(q_trajectory[i]) # XYZ(q_trajectory[j])
          /\ q_position = XYZ(q_trajectory[i])

\* the entry check_for_conflicts records when the window is exceeded
C23_WindowEntry ==
    Conflict(mission_end, Last(primary_trajectory), WINDOW_ID)

\* the report holds the window entry / an entry recorded by the sampling loop
C23_HasWindowEntry ==
    /\ WindowExceeded(primary_trajectory, mission_end_window)
    /\ C23_WindowEntry \in Range(report.conflicts)
C23_HasSpatialEntry ==
    \E k \in DOMAIN report.conflicts : report.conflicts[k] \in Range(all_conflicts)

\* C23 (window test strict and exclusive): when the non-empty primary ends at
\* or before window_end (equality included) and no tracked flight carries the
\* id MISSION_TIME_WINDOW_EXCEEDED, the finished report has no entry with that
\* id and the sampling loop has run; and no finished report holds both the
\* window entry and an entry recorded by the sampling loop.
C23_WindowStrict ==
    (pc = "done" /\ primary_trajectory # << >>) =>
       /\ (/\ RLe(mission_end, mission_end_window)
           /\ \A j \in DOMAIN simulated_flights :
                 simulated_flights[j].flight_id # WINDOW_ID)
          => /\ \A k \in DOMAIN report.conflicts :
                   report.conflicts[k].conflicted_with_flight_id # WINDOW_ID
             /\ sampled # << >>
             /\ sampled[1] = mission_start
       /\ ~(C23_HasWindowEntry /\ C23_HasSpatialEntry)
       /\ C23_HasWindowEntry => (sampled = << >> /\ Len(report.conflicts) = 1)

\* a mission that ends exactly at window_end and is reported in conflict with
\* a tracked flight
C23_Witness ==
    /\ pc = "done"
    /\ primary_trajectory # << >>
    /\ mission_end = mission_end_window
    /\ Len(sampled) >= 2
    /\ report.status = "CONFLICT_DETECTED"
    /\ \A j \in DOMAIN simulated_flights : simulated_flights[j].flight_id # WINDOW_ID

RECURSIVE C26_Recorded(_, _, _)
C26_Recorded(k, H, V) ==
    IF k > Len(sampled)
    THEN << >>
    ELSE LET t == sampled[k]
             primary_pos == _find_drone_position(primary_trajectory, t)
             hits == IF primary_pos = None
                     THEN << >>
                     ELSE FlightLoop(primary_pos, simulated_flights, 1, t, H, V)
         IN  [i \in 1..Len(hits) |->
                Conflict(Round2(t),
                         RecordedLocation(primary_pos,
                             _find_drone_position(
                                 simulated_flights[hits[i]].trajectory, t)),
                         simulated_flights[hits[i]].flight_id)]
             \o C26_Recorded(k + 1, H, V)

\* the report of the same check with buffers (H, V)
C26_ReportWith(H, V) ==
    IF sampled = << >> THEN report ELSE FinalReport(C26_Recorded(1, H, V))

\* the buffers at least as large as the ones of this check
C26_LargerBuffers ==
    { b \in ClearanceBuffers :
         RLe(buffer_horizontal, b[1]) /\ RLe(buffer_vertical, b[2]) }

C26_Keys(r) == { ConflictKey(c) : c \in Range(r.conflicts) }

\* the primary passes exactly below the one tracked flight, 25 m lower
C26_Below25 ==
    /\ Len(simulated_flights) = 1
    /\ \E t \in Range(sampled) :
          LET primary_pos == _find_drone_position(primary_trajectory, t)
              sim_pos == _find_drone_position(simulated_flights[1].trajectory, t)
          IN  /\ primary_pos # None /\ sim_pos # None
              /\ primary_pos.x = sim_pos.x /\ primary_pos.y = sim_pos.y
    /\ \A t \in Range(sampled) :
          LET primary_pos == _find_drone_position(primary_trajectory, t)
              sim_pos == _find_drone_position(simulated_flights[1].trajectory, t)
          IN  (primary_pos # None /\ sim_pos # None)
                 => RAbs(RSub(primary_pos.z, sim_pos.z)) = I(25)

C26_Example ==
    C26_Below25 =>
       /\ C26_ReportWith(I(5), I(2)) = ConflictReport("CLEAR", << >>)
       /\ C26_ReportWith(I(5), I(30)).status = "CONFLICT_DETECTED"

\* C26 as claimed: every conflict (time, location, id) reported with (H, V)
\* is also reported with larger buffers (H', V').
C26_MonotoneEntries ==
    (pc = "done") =>
       /\ C26_ReportWith(buffer_horizontal, buffer_vertical) = report
       /\ \A b \in C26_LargerBuffers :
             Range(report.conflicts) \subseteq Range(C26_ReportWith(b[1], b[2]).conflicts)
       /\ C26_Example

\* C26 (buffer monotonicity, amended): for the same primary, window_end,
\* tracked flights and step, and non-negative buffers H' >= H, V' >= V, the
\* (id, time) of every conflict reported with (H, V) is the (id, time) of a
\* conflict reported with (H', V'), and a CONFLICT stays a CONFLICT; a pair 0 m
\* apart horizontally and 25 m apart vertically is CLEAR with (5, 2) and
\* CONFLICT with (5, 30).
C26_MonotoneKeys ==
    (pc = "done") =>
       /\ C26_ReportWith(buffer_horizontal, buffer_vertical) = report
       /\ \A b \in C26_LargerBuffers :
             /\ C26_Keys(report) \subseteq C26_Keys(C26_ReportWith(b[1], b[2]))
             /\ report.status = "CONFLICT_DETECTED"
                   => C26_ReportWith(b[1], b[2]).status = "CONFLICT_DETECTED"
       /\ C26_Example

\* a check with buffers (5, 2) that is CLEAR 25 m below the tracked flight
C26_Witness ==
    /\ pc = "done"
    /\ C26_Below25
    /\ buffer_horizontal = I(5) /\ buffer_vertical = I(2)
    /\ report.status = "CLEAR"
    /\ C26_ReportWith(I(5), I(30)).status = "CONFLICT_DETECTED"

\* at a visited instant the primary and a tracked flight are at the same point
C27_SamePlace ==
    \E t \in Range(sampled), j \in DOMAIN simulated_flights :
       LET primary_pos == _find_drone_position(primary_trajectory, t)
           sim_pos == _find_drone_position(simulated_flights[j].trajectory, t)
       IN  primary_pos # None /\ sim_pos # None /\ primary_pos = sim_pos

\* C27 (zero buffer): with buffer_horizontal = 0 or buffer_vertical = 0 the
\* sampling loop never records a conflict, and the report of a check that
\* sampled is CLEAR with no conflicts, also when the primary and a tracked
\* flight are at exactly the same coordinates at a sample instant.
C27_ZeroBufferClear ==
    (Checked /\ (buffer_horizontal = Zero \/ buffer_vertical = Zero)) =>
       /\ all_conflicts = << >>
       /\ raw = << >>
       /\ (pc = "done" /\ sampled # << >>) => report = ConflictReport("CLEAR", << >>)

\* a finished check with a zero buffer in which the primary and a tracked
\* flight were at the same point at a visited instant
C27_Witness ==
    /\ pc = "done"
    /\ buffer_horizontal = Zero \/ buffer_vertical = Zero
    /\ C27_SamePlace
    /\ report.status = "CLEAR"

\* raw[m] and all_conflicts[m] are the m-th breach recorded: << m1, m2 >> are
\* the breaches at one instant of the first listed and of a later listed
\* flight with the same id
C28_SharedBreaches ==
    { p \in (DOMAIN raw) \X (DOMAIN raw) :
         /\ p[1] < p[2]
         /\ raw[p[1]].t = raw[p[2]].t
         /\ raw[p[1]].j < raw[p[2]].j
         /\ simulated_flights[raw[p[1]].j].flight_id
              = simulated_flights[raw[p[2]].j].flight_id
         /\ \A m \in 1..(p[1] - 1) :
               ~(/\ raw[m].t = raw[p[1]].t
                 /\ simulated_flights[raw[m].j].flight_id
                      = simulated_flights[raw[p[1]].j].flight_id) }

\* the first breach recorded with the key of the m-th
C28_FirstWithKey(m) ==
    CHOOSE f \in 1..m :
       /\ ConflictKey(all_conflicts[f]) = ConflictKey(all_conflicts[m])
       /\ \A g \in 1..(f - 1) :
             ConflictKey(all_conflicts[g]) # ConflictKey(all_conflicts[m])

\* the entries of the report with the key of the m-th breach
C28_ReportedWithKey(m) ==
    { k \in DOMAIN report.conflicts :
         ConflictKey(report.conflicts[k]) = ConflictKey(all_conflicts[m]) }

\* the entry recorded for flight j at instant t
C28_EntryOf(j, t) ==
    Conflict(Round2(t), _find_drone_position(primary_trajectory, t),
             simulated_flights[j].flight_id)

\* C28 as claimed: when two flights with the same id both breach at one
\* instant, the report holds one entry for that (id, time), and it is the one
\* recorded at that instant for the flight listed first.
C28_FirstListedKept ==
    (pc = "done") =>
       \A p \in C28_SharedBreaches :
          /\ Cardinality(C28_ReportedWithKey(p[1])) = 1
          /\ \A k \in C28_ReportedWithKey(p[1]) :
                /\ report.conflicts[k] = C28_EntryOf(raw[p[1]].j, raw[p[1]].t)
                /\ C28_FirstWithKey(p[1]) = p[1]

\* C28 (shared id, amended): when two flights with the same id both breach
\* at one sample instant, the report holds exactly one entry for that (id,
\* time): the first breach recorded with that id and rounded time.  It is the
\* one recorded at that instant for the flight listed first when no earlier
\* instant recorded a breach with the same id and rounded time; the later
\* listed flight's breach is never the one kept.
C28_FirstRecordedKept ==
    (pc = "done") =>
       \A p \in C28_SharedBreaches :
          LET f == C28_FirstWithKey(p[1]) IN
          /\ Cardinality(C28_ReportedWithKey(p[1])) = 1
          /\ \A k \in C28_ReportedWithKey(p[1]) :
                /\ report.conflicts[k] = all_conflicts[f]
                /\ report.conflicts[k] = C28_EntryOf(raw[f].j, raw[f].t)
          /\ f # p[2]
          /\ C28_FirstWithKey(p[2]) = f
          /\ (raw[f].t = raw[p[1]].t) => f = p[1]

\* two flights with one id breach at an instant, and the entry kept for that
\* (id, time) was recorded at an earlier instant for the later listed flight
C28_Witness ==
    /\ pc = "done"
    /\ \E p \in C28_SharedBreaches :
          LET f == C28_FirstWithKey(p[1]) IN
          /\ f < p[1]
          /\ raw[f].j = raw[p[2]].j
          /\ all_conflicts[f] \in Range(report.conflicts)
          /\ all_conflicts[f] # all_conflicts[p[1]]

\* the mission cannot be flown from the desired start time
C29_CannotFly ==
    \/ RLt(desired_start_time, mission.mission_start_time)
    \/ convert_mission_to_trajectory(mission, desired_start_time).raised

\* C29 (no report for a mission that cannot be flown): when the desired start
\* time is before mission_start_time, or the builder raises the invalid-speed
\* error, run_simulation never calls check_for_conflicts or
\* animate_simulation, no report exists, and it returns after printing
\* REJECTED.
C29_RejectedWithoutReport ==
    C29_CannotFly =>
       /\ \A i \in DOMAIN calls :
             calls[i] \notin {"check_for_conflicts", "animate_simulation"}
       /\ report = None
       /\ pc \in {"menu", "convert", "returned"}
       /\ pc = "returned" => printed = << "REJECTED" >>
       /\ pc = "convert" => ~RLt(desired_start_time, mission.mission_start_time)

\* run_simulation has returned after the builder raised, with an animation
\* asked for and the start time inside the window
C29_Witness ==
    /\ pc = "returned"
    /\ ~RLt(desired_start_time, mission.mission_start_time)
    /\ built # None
    /\ built.raised
    /\ create_animation
    /\ calls = << "convert_mission_to_trajectory" >>
    /\ printed = << "REJECTED" >>

\* C30 (invalid entry leaves the buffers alone): a call of
\* change_safety_buffers in which at least one of the two entries is not a
\* number leaves SAFETY_BUFFER_HORIZONTAL and SAFETY_BUFFER_VERTICAL with the
\* values they had before the call, also for a valid horizontal entry followed
\* by an invalid vertical one.
C30_BuffersNotChanged ==
    [][\A new_h_input \in Entries, new_v_input \in Entries :
          (/\ change_safety_buffers(new_h_input, new_v_input)
           /\ RaisesValueError(new_h_input) \/ RaisesValueError(new_v_input))
          => /\ SAFETY_BUFFER_HORIZONTAL' = SAFETY_BUFFER_HORIZONTAL
             /\ SAFETY_BUFFER_VERTICAL' = SAFETY_BUFFER_VERTICAL]_vars

=============================================================================
